---- MODULE Spec2Model ----
(***************************************************************************)
(* Model of src/src/main.rs: the content tree builder (get_tree,           *)
(* parent_path, attach_children), the thumbnail extractor                  *)
(* (extract_first_image) and the render pipeline (render_markdown).        *)
(*                                                                         *)
(* Strings are sequences of one-character strings.  Option<T> is a         *)
(* sequence of length 0 (None) or 1 (Some).  The platform is Unix: '/' is  *)
(* the only path separator and a backslash is an ordinary name character.  *)
(***************************************************************************)
EXTENDS Integers, Sequences, FiniteSets, TLC

VARIABLES
    \* extract_first_image
    events, idx, found, ipc,
    \* render_markdown
    year, title, rpc, status, fsLog, trace, fileKind, sawFile, readOk,
    \* get_tree and the content root it walks
    rootKind, fs, tpc, cur, walked, nodes, result, prev

imgVars == <<events, idx, found, ipc>>
renderVars == <<year, title, rpc, status, fsLog, trace, fileKind, sawFile, readOk>>
treeVars == <<rootKind, fs, tpc, cur, walked, nodes, result, prev>>
vars == <<imgVars, renderVars, treeVars>>

None == <<>>
Some(x) == <<x>>

\* ------------------------------------------------------------ strings

\* str::find: the 1-based index of the first occurrence of pat in s, 0 if none.
Find(s, pat) ==
    LET hits == {i \in 1..(Len(s) - Len(pat) + 1) : SubSeq(s, i, i + Len(pat) - 1) = pat}
    IN IF hits = {} THEN 0 ELSE CHOOSE i \in hits : \A j \in hits : i <= j

\* str::contains
Contains(s, pat) == Find(s, pat) # 0

\* str::starts_with
StartsWith(s, pat) == Len(s) >= Len(pat) /\ SubSeq(s, 1, Len(pat)) = pat

\* ------------------------------------------------- extract_first_image

\* "P" stands for the literal "https://github.com/user-attachments/".
TrustedPrefix == <<"P">>

\* The literal searched for: src=" followed by the trusted prefix.
Marker == <<"s", "r", "c", "=", "\"">> \o TrustedPrefix

\* The offset that skips src=" .
SrcSkip == 5

\* The body of the loop for one Event::Html: Some(src value) or None.
ExtractFromHtml(html_str) ==
    LET src_start == Find(html_str, Marker) IN
    IF src_start = 0 THEN None
    ELSE LET rest == SubSeq(html_str, src_start + SrcSkip, Len(html_str))
             end_quote == Find(rest, <<"\"">>)
         IN IF end_quote = 0 THEN None
            ELSE LET src_value == SubSeq(rest, 1, end_quote - 1)
                 IN IF StartsWith(src_value, TrustedPrefix)
                    THEN Some(src_value) ELSE None

\* EventResult looking at every event, whatever its kind.
EventResultAnyKind(event) == ExtractFromHtml(event.text)

\* What one event of the parser contributes: only Event::Html is looked at.
EventResult(event) ==
    IF event.kind = "Html" THEN ExtractFromHtml(event.text) ELSE None

\* extract_first_image: the value of the first event that yields one.
extract_first_image(evs) ==
    LET hits == {i \in 1..Len(evs) : EventResult(evs[i]) # None}
    IN IF hits = {} THEN None
       ELSE EventResult(evs[CHOOSE i \in hits : \A j \in hits : i <= j])

\* Bounds of the documents tried.
MaxEvents == 2
MaxFrags == 2

Frags == {Marker, <<"\"">>, <<"x">>}

RECURSIVE Texts(_)
Texts(n) == IF n = 0 THEN {<<>>}
            ELSE Texts(n - 1) \cup {t \o f : t \in Texts(n - 1), f \in Frags}

\* A text that would qualify in a raw-HTML event, carried by the other events.
OtherText == Marker \o <<"x", "\"">>

EventPool ==
    {[kind |-> "Html", text |-> t] : t \in Texts(MaxFrags)}
    \cup {[kind |-> k, text |-> OtherText] : k \in {"Text", "Image"}}

RECURSIVE EventSeqs(_)
EventSeqs(n) == IF n = 0 THEN {<<>>}
                ELSE EventSeqs(n - 1)
                     \cup {s \o <<e>> : s \in EventSeqs(n - 1), e \in EventPool}

\* ------------------------------------------------------ render_markdown

\* String::len counts bytes: "U" stands for one three-byte character.
ByteLen(s) == Len(s) + 2 * Cardinality({i \in 1..Len(s) : s[i] = "U"})

YearMax == 20
TitleMax == 300

\* Rejects without the test of title for "..".
RejectsNoTitleDots(y, t) ==
    \/ ByteLen(y) > YearMax
    \/ ByteLen(t) > TitleMax
    \/ Contains(y, <<".", ".">>)
    \/ Contains(y, <<"/">>)
    \/ Contains(t, <<"/">>)

\* Rejects without the test of year for "..".
RejectsNoYearDots(y, t) ==
    \/ ByteLen(y) > YearMax
    \/ ByteLen(t) > TitleMax
    \/ Contains(t, <<".", ".">>)
    \/ Contains(y, <<"/">>)
    \/ Contains(t, <<"/">>)

\* The condition of the first if of render_markdown.
Rejects(y, t) ==
    \/ ByteLen(y) > YearMax
    \/ ByteLen(t) > TitleMax
    \/ Contains(y, <<".", ".">>)
    \/ Contains(t, <<".", ".">>)
    \/ Contains(y, <<"/">>)
    \/ Contains(t, <<"/">>)

ContentRoot == <<"w", "o", "r", "k", "s">>
DocExt == <<".", "m", "d">>

\* Path::is_absolute on Unix.
IsAbsolute(p) == Len(p) > 0 /\ p[1] = "/"

\* PathBuf::join (PathBuf::push): an absolute argument replaces the path,
\* otherwise it is appended after a separator.
Join(base, p) ==
    IF IsAbsolute(p) THEN p
    ELSE IF Len(base) > 0 /\ base[Len(base)] # "/" THEN base \o <<"/">> \o p
    ELSE base \o p

\* PathBuf::from("works").join(&year).join(format!("{}.md", title))
FilePath(y, t) == Join(Join(ContentRoot, y), t \o DocExt)

\* The '/'-separated pieces of p, empty ones included, in order.
Pieces(p) ==
    LET starts == {i \in 1..(Len(p) + 1) : i = 1 \/ p[i - 1] = "/"}
        nth(k) == CHOOSE i \in starts : Cardinality({j \in starts : j < i}) = k - 1
        stop(i) == IF \E j \in i..Len(p) : p[j] = "/"
                   THEN (CHOOSE j \in i..Len(p) :
                            p[j] = "/" /\ \A l \in i..(j - 1) : p[l] # "/") - 1
                   ELSE Len(p)
    IN [k \in 1..Cardinality(starts) |-> SubSeq(p, nth(k), stop(nth(k)))]

\* Path::components: a leading "/" is the root component, empty pieces and
\* "." pieces are dropped (a leading "." is kept), ".." is kept.
Components(p) ==
    LET ps == Pieces(p)
        keep == {k \in 1..Len(ps) :
                    /\ ps[k] # <<>>
                    /\ (ps[k] = <<".">> => (k = 1))}
        nth(k) == CHOOSE i \in keep : Cardinality({j \in keep : j < i}) = k - 1
        body == [k \in 1..Cardinality(keep) |-> ps[nth(k)]]
    IN IF IsAbsolute(p) THEN <<(<<"/">>)>> \o body ELSE body

\* Path::starts_with compares whole components.
PathStartsWith(p, base) ==
    LET cp == Components(p)
        cb == Components(base)
    IN Len(cp) >= Len(cb) /\ SubSeq(cp, 1, Len(cb)) = cb

\* file_path.starts_with("works/")
UnderPrefix(p) == PathStartsWith(p, ContentRoot \o <<"/">>)

\* Path::is_file: an existing regular file, whether or not it can be read.
IsFile(kind) == kind \in {"file", "unreadable"}

\* fs::read_to_string succeeds on a readable regular file only.
ReadSucceeds(kind) == kind = "file"

\* Bounds of the requests tried.
MaxCore == 2

PathChars == {".", "/", "a"}

RECURSIVE Cores(_)
Cores(n) == IF n = 0 THEN {<<>>}
            ELSE Cores(n - 1) \cup {s \o <<c>> : s \in Cores(n - 1), c \in PathChars}

Fill(n, c) == [i \in 1..n |-> c]

\* Fillers that put the byte length on either side of the limits.
YearFills == {Fill(0, "x"), Fill(YearMax - 1, "x"), Fill(YearMax, "x"), Fill(7, "U")}
TitleFills == {Fill(0, "x"), Fill(TitleMax - 1, "x"), Fill(TitleMax, "x"), Fill(100, "U")}

FileKinds == {"file", "missing", "dir", "unreadable"}

IdleImage ==
    /\ events = <<>>
    /\ idx = 1
    /\ found = None
    /\ ipc = "idle"

NoNodes == <<>>

IdleTree ==
    /\ rootKind = "missing"
    /\ fs = {}
    /\ tpc = "off"
    /\ cur = <<>>
    /\ walked = {}
    /\ nodes = NoNodes
    /\ result = None
    /\ prev = None

IdleRender ==
    /\ year = <<>>
    /\ title = <<>>
    /\ rpc = "idle"
    /\ status = 0
    /\ fsLog = <<>>
    /\ trace = <<>>
    /\ fileKind = "missing"
    /\ sawFile = FALSE
    /\ readOk = FALSE

InitRender ==
    /\ year \in {c \o f : c \in Cores(MaxCore), f \in YearFills}
    /\ title \in {c \o f : c \in Cores(MaxCore), f \in TitleFills}
    /\ rpc = "validate"
    /\ status = 0
    /\ fsLog = <<>>
    /\ trace = <<>>
    /\ fileKind \in FileKinds
    /\ sawFile = FALSE
    /\ readOk = FALSE
    /\ IdleImage
    /\ IdleTree

\* Validate, rejecting: 400 Bad Request.
ValidateReject ==
    /\ rpc = "validate"
    /\ Rejects(year, title)
    /\ status' = 400
    /\ rpc' = "done"
    /\ trace' = Append(trace, "Validate")
    /\ UNCHANGED <<year, title, fsLog, fileKind, sawFile, readOk, imgVars, treeVars>>

\* Validate, accepting.
ValidateOk ==
    /\ rpc = "validate"
    /\ ~Rejects(year, title)
    /\ rpc' = "resolve"
    /\ trace' = Append(trace, "Validate")
    /\ UNCHANGED <<year, title, status, fsLog, fileKind, sawFile, readOk, imgVars, treeVars>>

\* Resolve: !file_path.starts_with("works/") || !file_path.is_file() ends in
\* not_found_html; is_file is evaluated only when the first test lets it.
Resolve ==
    /\ rpc = "resolve"
    /\ LET file_path == FilePath(year, title)
           under == UnderPrefix(file_path)
       IN /\ fsLog' = IF under
                      THEN Append(fsLog, [op |-> "is_file", path |-> file_path])
                      ELSE fsLog
          /\ IF under /\ IsFile(fileKind)
             THEN /\ sawFile' = TRUE
                  /\ rpc' = "read"
                  /\ status' = status
             ELSE /\ sawFile' = sawFile
                  /\ rpc' = "done"
                  /\ status' = 404
    /\ trace' = Append(trace, "Resolve")
    /\ UNCHANGED <<year, title, fileKind, readOk, imgVars, treeVars>>

\* ReadFail carrying on with an empty document instead of returning.
ReadFailAsEmpty ==
    /\ rpc = "read"
    /\ ~ReadSucceeds(fileKind)
    /\ fsLog' = Append(fsLog, [op |-> "read", path |-> FilePath(year, title)])
    /\ rpc' = "convert"
    /\ trace' = Append(trace, "Read")
    /\ UNCHANGED <<year, title, status, fileKind, sawFile, readOk, imgVars, treeVars>>

\* Read: read_to_string fails.
ReadFail ==
    /\ rpc = "read"
    /\ ~ReadSucceeds(fileKind)
    /\ fsLog' = Append(fsLog, [op |-> "read", path |-> FilePath(year, title)])
    /\ status' = 404
    /\ rpc' = "done"
    /\ trace' = Append(trace, "Read")
    /\ UNCHANGED <<year, title, fileKind, sawFile, readOk, imgVars, treeVars>>

\* Read: read_to_string succeeds.
ReadOk ==
    /\ rpc = "read"
    /\ ReadSucceeds(fileKind)
    /\ fsLog' = Append(fsLog, [op |-> "read", path |-> FilePath(year, title)])
    /\ readOk' = TRUE
    /\ rpc' = "convert"
    /\ trace' = Append(trace, "Read")
    /\ UNCHANGED <<year, title, status, fileKind, sawFile, imgVars, treeVars>>

\* Convert: markdown_to_html.
Convert ==
    /\ rpc = "convert"
    /\ rpc' = "wrap"
    /\ trace' = Append(trace, "Convert")
    /\ UNCHANGED <<year, title, status, fsLog, fileKind, sawFile, readOk, imgVars, treeVars>>

\* Wrap: the page template, 200 OK.
Wrap ==
    /\ rpc = "wrap"
    /\ status' = 200
    /\ rpc' = "done"
    /\ trace' = Append(trace, "Wrap")
    /\ UNCHANGED <<year, title, fsLog, fileKind, sawFile, readOk, imgVars, treeVars>>

\* The filesystem changes under a request in flight.
FsChange ==
    /\ rpc \in {"resolve", "read"}
    /\ \E k \in FileKinds \ {fileKind} : fileKind' = k
    /\ UNCHANGED <<year, title, rpc, status, fsLog, trace, sawFile, readOk, imgVars, treeVars>>

NextRender ==
    \/ ValidateReject \/ ValidateOk
    \/ Resolve
    \/ ReadFail \/ ReadOk
    \/ Convert \/ Wrap
    \/ FsChange

SpecRender == InitRender /\ [][NextRender]_vars

\* ------------------------------------------------------------- get_tree

\* The characters of the model in byte order, for String's Ord.
ByteOrder == <<".", "/", "D", "M", "\\", "a", "b", "c", "d", "k", "m", "o", "r", "s", "w">>
Code(c) == CHOOSE i \in 1..Len(ByteOrder) : ByteOrder[i] = c

\* String's < : lexicographic on bytes.
StrLess(a, b) ==
    \E i \in 1..(Len(a) + 1) :
        /\ i <= Len(b)
        /\ SubSeq(a, 1, i - 1) = SubSeq(b, 1, i - 1)
        /\ (i = Len(a) + 1 \/ Code(a[i]) < Code(b[i]))

\* Vec<String>::sort
SortPaths(ps) == SortSeq(ps, StrLess)

\* str::replace('\\', "/")
ReplaceBackslash(s) == [i \in 1..Len(s) |-> IF s[i] = "\\" THEN "/" ELSE s[i]]

\* str::trim_matches('/')
TrimSlashes(s) ==
    LET keep == {i \in 1..Len(s) : s[i] # "/"}
    IN IF keep = {} THEN <<>>
       ELSE SubSeq(s, CHOOSE i \in keep : \A j \in keep : i <= j,
                      CHOOSE i \in keep : \A j \in keep : i >= j)

\* str::trim_end_matches('/')
TrimEndSlashes(s) ==
    LET keep == {i \in 1..Len(s) : s[i] # "/"}
    IN IF keep = {} THEN <<>>
       ELSE SubSeq(s, 1, CHOOSE i \in keep : \A j \in keep : i >= j)

\* str::rfind('/'): the 1-based index of the last '/', 0 if none.
RFindSlash(s) ==
    LET at == {i \in 1..Len(s) : s[i] = "/"}
    IN IF at = {} THEN 0 ELSE CHOOSE i \in at : \A j \in at : i >= j

RootVirtual == <<"/">> \o ContentRoot

\* The names of an entry's path below the root, joined by '/': what
\* strip_prefix(root_dir) leaves.
RECURSIVE Stripped(_)
Stripped(fsPath) ==
    IF Len(fsPath) = 0 THEN <<>>
    ELSE IF Len(fsPath) = 1 THEN fsPath[1]
    ELSE fsPath[1] \o <<"/">> \o Stripped(Tail(fsPath))

\* rel_path of the walk loop.
RelPath(fsPath) ==
    LET path_str == TrimSlashes(ReplaceBackslash(Stripped(fsPath)))
    IN IF path_str = <<>> THEN RootVirtual
       ELSE RootVirtual \o <<"/">> \o path_str

\* Path::file_name of an entry below the root.
FileName(fsPath) == fsPath[Len(fsPath)]

\* Path::is_dir follows symbolic links.
IsDirKind(kind) == kind \in {"dir", "symdir"}

\* Path::extension: what follows the last '.', None when there is no '.' or
\* the only one starts the name.
Extension(name) ==
    LET dots == {i \in 1..Len(name) : name[i] = "."}
        last == CHOOSE i \in dots : \A j \in dots : i >= j
    IN IF dots = {} \/ last = 1 THEN None
       ELSE Some(SubSeq(name, last + 1, Len(name)))

\* u8::to_ascii_lowercase on the letters of the model.
Lower(c) == IF c = "M" THEN "m" ELSE IF c = "D" THEN "d" ELSE c

\* The extension test without the test: every file is a document.
AnyExtension(name) == TRUE

\* extension().and_then(to_str).map_or(false, |e| e.eq_ignore_ascii_case("md"))
HasDocExtension(name) ==
    LET e == Extension(name)
    IN e # None /\ [i \in 1..Len(e[1]) |-> Lower(e[1][i])] = <<"m", "d">>

\* fs::read_to_string of an entry: the document of a readable file, None on
\* any error (a directory, a file that cannot be read).
ReadToString(e) == IF e.kind = "file" /\ e.ok THEN Some(e.doc) ELSE None

\* The thumbnail the walk loop computes for one entry.
Thumbnail(e) ==
    IF ~IsDirKind(e.kind) /\ HasDocExtension(FileName(e.path))
    THEN IF ReadToString(e) # None
         THEN extract_first_image(ReadToString(e)[1])
         ELSE None
    ELSE None

\* The Node the walk loop builds for one entry.
EntryNode(e) ==
    LET is_dir == IsDirKind(e.kind)
    IN [name |-> FileName(e.path),
        path |-> RelPath(e.path),
        is_dir |-> is_dir,
        children |-> IF is_dir THEN Some(<<>>) ELSE None,
        thumbnail |-> Thumbnail(e)]

\* The root synthesized when the map holds no "/works".
DefaultRoot ==
    [name |-> ContentRoot, path |-> RootVirtual, is_dir |-> TRUE,
     children |-> Some(<<>>), thumbnail |-> None]

\* parent_path
parent_path(path) ==
    LET p == TrimEndSlashes(path)
        last_slash == RFindSlash(p)
    IN IF last_slash = 0 THEN None
       ELSE IF last_slash = 1 THEN None
       ELSE Some(SubSeq(p, 1, last_slash - 1))

\* by_parent as the loop over nodes.keys() fills it, the keys taken in the
\* order keySeq.
RECURSIVE GroupByParent(_, _)
GroupByParent(keySeq, acc) ==
    IF keySeq = <<>> THEN acc
    ELSE LET path == keySeq[1]
             parent == parent_path(path)
         IN IF parent = None THEN GroupByParent(Tail(keySeq), acc)
            ELSE LET k == parent[1]
                     old == IF k \in DOMAIN acc THEN acc[k] ELSE <<>>
                 IN GroupByParent(Tail(keySeq),
                        [q \in DOMAIN acc \cup {k} |->
                            IF q = k THEN Append(old, path) ELSE acc[q]])

\* for children in by_parent.values_mut() { children.sort(); }
SortGroups(by_parent) == [k \in DOMAIN by_parent |-> SortPaths(by_parent[k])]

\* attach_children
RECURSIVE attach_children(_, _, _)
attach_children(node, all_nodes, by_parent) ==
    IF node.path \in DOMAIN by_parent
    THEN LET child_paths == by_parent[node.path]
             known == SelectSeq(child_paths, LAMBDA p : p \in DOMAIN all_nodes)
             children == [i \in 1..Len(known) |->
                             attach_children(all_nodes[known[i]], all_nodes, by_parent)]
         IN [node EXCEPT !.children = IF children = <<>> THEN None ELSE Some(children)]
    ELSE node

\* The sequences that list the elements of S once each.
Orders(S) == {q \in [1..Cardinality(S) -> S] : \A x \in S : \E i \in DOMAIN q : q[i] = x}

\* "Build hierarchy": what get_tree returns for the flat map, the keys of the
\* map iterated in the order keySeq.
BuildTree(all, keySeq) ==
    LET hasRoot == RootVirtual \in DOMAIN all
        root == IF hasRoot THEN all[RootVirtual] ELSE DefaultRoot
        rest == [k \in DOMAIN all \ {RootVirtual} |-> all[k]]
        by_parent == SortGroups(GroupByParent(SelectSeq(keySeq, LAMBDA k : k # RootVirtual), <<>>))
    IN attach_children(root, rest, by_parent)

\* -------------------------------------------- get_tree, the state machine

\* Bounds of the content roots tried.
MaxEntries == 2

\* File and directory names: plain, documents in both cases, and names that
\* hold a backslash, which Unix allows in a name.
Names ==
    {<<"a">>, <<"b", ".", "m", "d">>, <<"c", ".", "M", "D">>,
     <<"\\">>, <<"a", "\\">>, <<"a", "\\", "b">>}

\* A document with a qualifying raw-HTML image and one with a markdown image only.
DocWithImage == <<[kind |-> "Html", text |-> Marker \o <<"x", "\"">>]>>
DocWithout == <<[kind |-> "Image", text |-> OtherText]>>

\* What an entry can be: a file (readable with either document, or
\* unreadable), a directory (listable or not), a symbolic link to a directory.
Variants ==
    {[kind |-> "file", ok |-> TRUE, doc |-> d] : d \in {DocWithImage, DocWithout}}
    \cup {[kind |-> "file", ok |-> FALSE, doc |-> DocWithImage],
          [kind |-> "dir", ok |-> TRUE, doc |-> <<>>],
          [kind |-> "dir", ok |-> FALSE, doc |-> <<>>],
          [kind |-> "symdir", ok |-> TRUE, doc |-> <<>>]}

InitTree ==
    /\ rootKind \in {"dir", "missing", "file"}
    /\ fs = {}
    /\ tpc = "setup"
    /\ cur = <<>>
    /\ walked = {}
    /\ nodes = NoNodes
    /\ result = None
    /\ prev = None
    /\ IdleImage
    /\ IdleRender

\* The content root gets an entry, before any request: in the root or in a
\* directory of it.
Create ==
    /\ tpc = "setup"
    /\ rootKind = "dir"
    /\ Cardinality(fs) < MaxEntries
    /\ \E parent \in {<<>>} \cup {e.path : e \in {x \in fs : x.kind = "dir"}},
          name \in Names, v \in Variants :
          /\ \A e \in fs : e.path # Append(parent, name)
          /\ fs' = fs \cup {[path |-> Append(parent, name), kind |-> v.kind,
                             ok |-> v.ok, doc |-> v.doc]}
    /\ UNCHANGED <<rootKind, tpc, cur, walked, nodes, result, prev, imgVars, renderVars>>

\* GET /api/tree arrives: WalkDir starts. The root entry itself is skipped
\* (or is an error that filter_map drops when the root is missing).
StartTree ==
    /\ tpc = "setup"
    /\ tpc' = "walk"
    /\ UNCHANGED <<rootKind, fs, cur, walked, nodes, result, prev, imgVars, renderVars>>

\* The entries of directory d.
ChildrenOf(d) == {e \in fs : Len(e.path) = Len(d) + 1 /\ SubSeq(e.path, 1, Len(d)) = d}

\* WalkDir is depth first: the next entry is one not yet yielded of the deepest
\* directory on the way to cur that has one left.
NextEntries ==
    LET open == {k \in 0..Len(cur) : ChildrenOf(SubSeq(cur, 1, k)) \ {e \in fs : e.path \in walked} # {}}
    IN IF open = {} THEN {}
       ELSE LET k == CHOOSE i \in open : \A j \in open : i >= j
            IN ChildrenOf(SubSeq(cur, 1, k)) \ {e \in fs : e.path \in walked}

\* HashMap::insert
Insert(map, key, value) ==
    [k \in DOMAIN map \cup {key} |-> IF k = key THEN value ELSE map[k]]

\* One turn of the walk loop: the Node of the entry goes into the flat map.
\* A directory that can be listed is descended into next.
WalkEntry ==
    /\ tpc = "walk"
    /\ \E e \in NextEntries :
          /\ nodes' = Insert(nodes, RelPath(e.path), EntryNode(e))
          /\ walked' = walked \cup {e.path}
          /\ cur' = IF e.kind = "dir" /\ e.ok THEN e.path
                    ELSE SubSeq(e.path, 1, Len(e.path) - 1)
    /\ UNCHANGED <<rootKind, fs, tpc, result, prev, imgVars, renderVars>>

\* The walk is over: the hierarchy is built and returned. The keys of the
\* flat map come in the order the HashMap gives them.
Build ==
    /\ tpc = "walk"
    /\ NextEntries = {}
    /\ \E keySeq \in Orders(DOMAIN nodes) :
          result' = Some(BuildTree(nodes, keySeq))
    /\ tpc' = "done"
    /\ UNCHANGED <<rootKind, fs, cur, walked, nodes, prev, imgVars, renderVars>>

\* A second GET /api/tree on the same content root.
Again ==
    /\ tpc = "done"
    /\ prev = None
    /\ prev' = result
    /\ result' = None
    /\ nodes' = NoNodes
    /\ walked' = {}
    /\ cur' = <<>>
    /\ tpc' = "walk"
    /\ UNCHANGED <<rootKind, fs, imgVars, renderVars>>

NextTree == Create \/ StartTree \/ WalkEntry \/ Build \/ Again

SpecTree == InitTree /\ [][NextTree]_vars

\* ------------------------------------------------------ get_tree, claims

\* The nodes of a tree in document order, each with the path of the node it
\* is a child of (empty for the root) and the paths of its children.
RECURSIVE Flat(_, _), FlatAll(_, _)
Flat(node, par) ==
    <<[parent |-> par, name |-> node.name, path |-> node.path,
       is_dir |-> node.is_dir, thumbnail |-> node.thumbnail,
       kids |-> IF node.children = None THEN None
                ELSE Some([i \in 1..Len(node.children[1]) |-> node.children[1][i].path])]>>
    \o (IF node.children = None THEN <<>> ELSE FlatAll(node.children[1], node.path))
FlatAll(ns, par) ==
    IF ns = <<>> THEN <<>> ELSE Flat(ns[1], par) \o FlatAll(Tail(ns), par)

\* The returned tree, flattened.
Tree == Flat(result[1], <<>>)

\* The entry of the content root at a path.
EntryAt(p) == CHOOSE e \in fs : e.path = p

\* A virtual path with its last '/'-delimited segment removed.
WithoutLastSegment(vp) ==
    SubSeq(vp, 1, (CHOOSE i \in 1..Len(vp) :
                      vp[i] = "/" /\ \A j \in (i + 1)..Len(vp) : vp[j] # "/") - 1)

\* C2 as claimed: every walked entry is in the returned tree exactly once,
\* as a child of the node at its virtual path without the last segment.
C2_EveryEntryOnceUnderParent ==
    tpc = "done" =>
        \A p \in walked :
            LET at == {i \in 1..Len(Tree) :
                          Tree[i].path = RelPath(p) /\ Tree[i].name = FileName(p)}
            IN /\ Cardinality(at) = 1
               /\ \A i \in at : Tree[i].parent = WithoutLastSegment(RelPath(p))

Sorted(ps) == \A i \in 1..(Len(ps) - 1) : StrLess(ps[i], ps[i + 1])

\* C3 as claimed: children is absent, or non-empty and sorted by path, at
\* every node of the returned tree.
C3_ChildrenAbsentOrSortedNonEmpty ==
    tpc = "done" =>
        \A i \in 1..Len(Tree) :
            Tree[i].kids # None => (Len(Tree[i].kids[1]) > 0 /\ Sorted(Tree[i].kids[1]))

\* C6 as claimed: a second run on the same content root returns the tree the
\* first run returned.
C6_SameTreeTwice ==
    (tpc = "done" /\ prev # None) => result = prev

\* A name that ends in ".md", whatever the case of the letters.
EndsInDocExt(name) ==
    /\ Len(name) >= 3
    /\ name[Len(name) - 2] = "."
    /\ name[Len(name) - 1] \in {"m", "M"}
    /\ name[Len(name)] \in {"d", "D"}

\* C8: in the returned tree only a file whose name ends in ".md" (in any
\* case) has a thumbnail; every directory, the root and every other file
\* has none.
C8_ThumbnailOnlyOnDocuments ==
    tpc = "done" =>
        \A i \in 1..Len(Tree) :
            Tree[i].thumbnail # None => (~Tree[i].is_dir /\ EndsInDocExt(Tree[i].name))

\* C8 witness: a tree with a document that has a thumbnail beside an entry
\* that is no document.
C8_Witness ==
    /\ tpc = "done"
    /\ \E i \in 1..Len(Tree) : Tree[i].thumbnail # None
    /\ \E i \in 2..Len(Tree) : ~EndsInDocExt(Tree[i].name)

\* C9 as claimed: the returned root is the directory "/works"; a root that
\* is missing or no directory gives the root alone; a walked document that
\* cannot be read is in the tree without a thumbnail.
C9_RootAlwaysWorksDirectory ==
    tpc = "done" =>
        /\ Tree[1].path = RootVirtual
        /\ Tree[1].is_dir
        /\ (rootKind # "dir" => Len(Tree) = 1)
        /\ \A p \in walked :
              (EntryAt(p).kind = "file" /\ ~EntryAt(p).ok /\ EndsInDocExt(FileName(p))) =>
                  \E i \in 1..Len(Tree) :
                      /\ Tree[i].path = RelPath(p) /\ Tree[i].name = FileName(p)
                      /\ Tree[i].thumbnail = None

\* C10 as claimed: no file node has children, the root is the directory
\* "/works", and "/works" is nobody's child.
C10_FilesHaveNoChildren ==
    tpc = "done" =>
        /\ \A i \in 1..Len(Tree) : ~Tree[i].is_dir => Tree[i].kids = None
        /\ Tree[1].path = RootVirtual /\ Tree[1].is_dir
        /\ \A i \in 2..Len(Tree) : Tree[i].path # RootVirtual

\* ---------------------------------------------- render_markdown, claims

\* The claim's own reading of an invalid pair: over the maximum length in
\* characters, or holding ".." or a path separator.
HasDotDot(s) == \E i \in 1..(Len(s) - 1) : s[i] = "." /\ s[i + 1] = "."
HasSeparator(s) == \E i \in 1..Len(s) : s[i] = "/"
InvalidPair(y, t) ==
    \/ Len(y) > YearMax \/ Len(t) > TitleMax
    \/ HasDotDot(y) \/ HasDotDot(t)
    \/ HasSeparator(y) \/ HasSeparator(t)

\* C1: a request whose year or title is over its maximum length, or holds
\* ".." or a path separator, never touches the filesystem, never leaves
\* validation for another stage, and ends with status 400.
C1_InvalidIs400NoFs ==
    (rpc # "idle" /\ InvalidPair(year, title)) =>
        /\ fsLog = <<>>
        /\ rpc \in {"validate", "done"}
        /\ (rpc = "done" => status = 400)

\* C1 witness: a title holding ".." was answered 400.
C1_Witness ==
    /\ rpc = "done" /\ status = 400 /\ fsLog = <<>>
    /\ HasDotDot(title) /\ ~HasDotDot(year) /\ ~HasSeparator(year) /\ ~HasSeparator(title)
    /\ Len(year) <= YearMax /\ Len(title) <= TitleMax

Stages == <<"Validate", "Resolve", "Read", "Convert", "Wrap">>

\* C4: a request that passes validation runs the stages in order, has no
\* status before it ends, and ends 200 exactly when is_file saw a regular
\* file and the read succeeded (all five stages run), and 404 otherwise
\* (stopping at Resolve or at Read).
C4_ValidEnds200Or404 ==
    (rpc # "idle" /\ ~Rejects(year, title) /\ rpc # "validate") =>
        /\ Len(trace) <= Len(Stages) /\ trace = SubSeq(Stages, 1, Len(trace))
        /\ (rpc # "done" => status = 0)
        /\ (rpc = "done" =>
               /\ status \in {200, 404}
               /\ (status = 200 <=> (sawFile /\ readOk))
               /\ (status = 200 => trace = Stages)
               /\ (status = 404 => Len(trace) \in {2, 3}))

\* C4 witness: the file was there at the check and gone at the read: 404.
C4_Witness ==
    /\ rpc = "done" /\ status = 404 /\ sawFile /\ ~readOk
    /\ trace = <<"Validate", "Resolve", "Read">>
    /\ fileKind = "missing"

\* Where a relative path leads, component by component: ".." removes the
\* last component, or stays as ".." when there is none to remove.
RECURSIVE Lexical(_, _)
Lexical(cs, acc) ==
    IF cs = <<>> THEN acc
    ELSE IF cs[1] = <<".", ".">>
         THEN IF acc # <<>> /\ acc[Len(acc)] = <<"/">>
              THEN Lexical(Tail(cs), acc)
              ELSE IF acc # <<>> /\ acc[Len(acc)] # <<".", ".">>
                   THEN Lexical(Tail(cs), SubSeq(acc, 1, Len(acc) - 1))
                   ELSE Lexical(Tail(cs), Append(acc, cs[1]))
         ELSE IF cs[1] = <<".">> THEN Lexical(Tail(cs), acc)
         ELSE Lexical(Tail(cs), Append(acc, cs[1]))

\* The path names something strictly inside the content root.
LiesUnderRoot(p) ==
    LET at == Lexical(Components(p), <<>>)
    IN Len(at) >= 2 /\ at[1] = ContentRoot

\* C5: every file read, and so every page rendered, is at a path that lies
\* under the content root.
C5_ReadsOnlyUnderRoot ==
    \A i \in 1..Len(fsLog) : fsLog[i].op = "read" => LiesUnderRoot(fsLog[i].path)

\* C5 witness: a page was rendered for year "." (the root directory itself).
C5_Witness ==
    /\ rpc = "done" /\ status = 200 /\ year = <<".">>
    /\ \E i \in 1..Len(fsLog) : fsLog[i].op = "read"

\* -------------------------------------------- extract_first_image, claim

\* A raw-HTML event that holds src=" + the trusted prefix with a closing
\* double quote somewhere after it.
Qualifies(e) ==
    /\ e.kind = "Html"
    /\ \E i \in 1..Len(e.text), j \in 1..Len(e.text) :
          /\ i + Len(Marker) - 1 <= Len(e.text)
          /\ SubSeq(e.text, i, i + Len(Marker) - 1) = Marker
          /\ j >= i + Len(Marker)
          /\ e.text[j] = "\""

\* The text between the quote after the first src= of the marker and the
\* next double quote.
SrcValue(e) ==
    LET t == e.text
        i == CHOOSE a \in 1..Len(t) :
                /\ a + Len(Marker) - 1 <= Len(t)
                /\ SubSeq(t, a, a + Len(Marker) - 1) = Marker
                /\ \A b \in 1..(a - 1) : SubSeq(t, b, b + Len(Marker) - 1) # Marker
        open == i + 4
        close == CHOOSE j \in (open + 1)..Len(t) :
                    t[j] = "\"" /\ \A l \in (open + 1)..(j - 1) : t[l] # "\""
    IN SubSeq(t, open + 1, close - 1)

\* C7: the result is the src value of the first qualifying raw-HTML event,
\* and nothing when no raw-HTML event qualifies, whatever the other events
\* hold; a returned value begins with the trusted prefix.
C7_FirstQualifyingHtmlSrc ==
    ipc = "done" =>
        LET q == {k \in 1..Len(events) : Qualifies(events[k])}
        IN IF q = {} THEN found = None
           ELSE /\ found = Some(SrcValue(events[CHOOSE k \in q : \A l \in q : k <= l]))
                /\ StartsWith(found[1], TrustedPrefix)

\* C7 witness: a markdown image comes first and is passed over, the raw-HTML
\* event after it gives the value.
C7_Witness ==
    /\ ipc = "done" /\ found # None
    /\ Len(events) = 2 /\ events[1].kind = "Image" /\ events[2].kind = "Html"

\* ------------------------------------------ extract_first_image, the loop

InitImage ==
    /\ events \in EventSeqs(MaxEvents)
    /\ idx = 1
    /\ found = None
    /\ ipc = "scan"
    /\ IdleRender
    /\ IdleTree

\* for event in parser: an event that yields a value returns it.
ImgMatch ==
    /\ ipc = "scan"
    /\ idx <= Len(events)
    /\ EventResult(events[idx]) # None
    /\ found' = EventResult(events[idx])
    /\ ipc' = "done"
    /\ UNCHANGED <<events, idx, renderVars, treeVars>>

\* for event in parser: any other event moves the loop on.
ImgSkip ==
    /\ ipc = "scan"
    /\ idx <= Len(events)
    /\ EventResult(events[idx]) = None
    /\ idx' = idx + 1
    /\ UNCHANGED <<events, found, ipc, renderVars, treeVars>>

\* The loop ends without a match: None.
ImgEnd ==
    /\ ipc = "scan"
    /\ idx > Len(events)
    /\ found' = None
    /\ ipc' = "done"
    /\ UNCHANGED <<events, idx, renderVars, treeVars>>

NextImage == ImgMatch \/ ImgSkip \/ ImgEnd

SpecImage == InitImage /\ [][NextImage]_vars

====
